---- MODULE Spec2Model ----
(***************************************************************************)
(* extract_sleep_data (src/extract_sleep.py) as a state machine.           *)
(*                                                                         *)
(* The XML document is revealed to the program the way ET.iterparse        *)
(* reveals it: one 'start' or 'end' event at a time.  An element is known  *)
(* by its index in elems, which is its position in document order (the     *)
(* order of the start tags).  Time is counted in hours since an arbitrary  *)
(* epoch; a date attribute is a record of the text's shape (kind), the     *)
(* wall-clock time it spells (wall) and the UTC offset it spells (off).    *)
(*                                                                         *)
(* pandas is modelled by the documented contract of the two calls the      *)
(* code makes: to_datetime(format='ISO8601', utc=True) raises when a value *)
(* is not ISO-8601 and otherwise converts every value to UTC;              *)
(* to_datetime(errors='coerce') never raises on a bad value, turns it into *)
(* NaT and, having no utc=True, keeps the offset each value spells.        *)
(* The attributes value, unit and sourceName are copied and written but    *)
(* read by no step of the pipeline; the model leaves them out.             *)
(***************************************************************************)
EXTENDS Integers, Sequences, FiniteSets, TLC

VARIABLES
    pc,             \* position in extract_sleep_data
    archive,        \* what zip_path names: "ok", "nofile", "badzip", "noentry"
    zipOpen,        \* zip_ref is open
    xmlOpen,        \* xml_file is open
    opens,          \* how many times ZipFile(zip_path) was called
    elems,          \* the elements started so far, in document order
    stack,          \* the parser's stack of open elements (indices of elems)
    ended,          \* the elements whose 'end' event the loop has seen, in order
    cleared,        \* the elements whose attributes clear() has removed
    sleep_records,  \* the list built by the loop
    df,             \* the DataFrame (rows of timestamps)
    fallback,       \* the date columns that took the except branch
    out_file,       \* the output file: "absent", "partial" or "complete"
    out_rows,       \* the rows of a complete output file
    writes,         \* how many times to_parquet was called
    printed,        \* the last message printed
    error           \* the exception that left the function, or "none"

vars == <<pc, archive, zipOpen, xmlOpen, opens, elems, stack, ended, cleared,
          sleep_records, df, fallback, out_file, out_rows, writes, printed, error>>

\* ------------------------------------------------------------------ bounds

MaxElems == 4
MaxDepth == 3
DateDepth == 2

\* --------------------------------------------------------------- constants

WindowDays == 30
HoursPerDay == 24

\* ------------------------------------------------------------ helper: text

NoAttr == [some |-> FALSE, s |-> << >>]
Str(s) == [some |-> TRUE, s |-> s]

\* keyword in record_type: Python's substring test on str
Contains(s, k) ==
    \E i \in 1..(Len(s) - Len(k) + 1) : SubSeq(s, i, i + Len(k) - 1) = k

sleep_keywords ==
    << <<"s","l","e","e","p">>, <<"S","l","e","e","p">>, <<"S","L","E","E","P">> >>

\* line 35: record_type and any(keyword in record_type for keyword in
\* sleep_keywords)
IsSleepType(t) ==
    /\ t.some
    /\ Len(t.s) > 0
    /\ \E j \in 1..Len(sleep_keywords) : Contains(t.s, sleep_keywords[j])

\* ----------------------------------------------------------- helper: dates

DateStr(kind, wall, off) == [kind |-> kind, wall |-> wall, off |-> off]
NoDate == DateStr("absent", 0, 0)
Garbage == DateStr("bad", 0, 0)

NaT == [nat |-> TRUE, inst |-> 0, tz |-> 0]
Timestamp(inst, tz) == [nat |-> FALSE, inst |-> inst, tz |-> tz]

\* Whether format='ISO8601' accepts the value: None becomes NaT without an
\* error, an ISO-8601 text parses, anything else raises.
StrictAccepts(d) == d.kind \in {"absent", "iso"}

\* pd.to_datetime(value, format='ISO8601', utc=True)
ParseStrict(d) ==
    IF d.kind = "iso" THEN Timestamp(d.wall - d.off, 0) ELSE NaT

\* pd.to_datetime(value, errors='coerce')
ParseCoerce(d) ==
    IF d.kind \in {"iso", "loose"} THEN Timestamp(d.wall - d.off, d.off) ELSE NaT

\* lines 62-66: the try/except around one column
ToDatetime(col) ==
    IF \A i \in 1..Len(col) : StrictAccepts(col[i])
    THEN [i \in 1..Len(col) |-> ParseStrict(col[i])]
    ELSE [i \in 1..Len(col) |-> ParseCoerce(col[i])]

TookFallback(col) == \E i \in 1..Len(col) : ~StrictAccepts(col[i])

Column(recs, name) == [i \in 1..Len(recs) |-> recs[i][name]]

\* df['start_date'].max(): NaT values are skipped, NaT when there is none
MaxInst(S) == CHOOSE m \in S : \A x \in S : x <= m

\* (a variant that does not skip NaT: max(skipna=False))
LatestDateNoSkip(rows) ==
    LET S == {rows[i].start_date.inst : i \in {j \in 1..Len(rows) : ~rows[j].start_date.nat}}
    IN  IF S = {} \/ \E j \in 1..Len(rows) : rows[j].start_date.nat
        THEN NaT
        ELSE Timestamp(MaxInst(S), 0)

LatestDate(rows) ==
    LET S == {rows[i].start_date.inst : i \in {j \in 1..Len(rows) : ~rows[j].start_date.nat}}
    IN  IF S = {} THEN NaT ELSE Timestamp(MaxInst(S), 0)

\* latest_date - timedelta(days=30)
\* (a variant that subtracts 30 hours: timedelta(hours=30))
CutoffShort(latest) ==
    IF latest.nat THEN NaT ELSE Timestamp(latest.inst - WindowDays, 0)

Cutoff(latest) ==
    IF latest.nat THEN NaT ELSE Timestamp(latest.inst - WindowDays * HoursPerDay, 0)

\* df['start_date'] >= cutoff_date, row by row: False when either side is NaT
\* (a variant that compares with >)
AtOrAfterStrict(t, cutoff) == ~t.nat /\ ~cutoff.nat /\ t.inst > cutoff.inst

AtOrAfter(t, cutoff) == ~t.nat /\ ~cutoff.nat /\ t.inst >= cutoff.inst

\* df[mask]: the rows whose mask is True, in the order they have
\* (a variant that also drops every row holding a NaT: df.dropna())
SelectDropNa(rows, cutoff) ==
    SelectSeq(rows, LAMBDA r : /\ AtOrAfter(r.start_date, cutoff)
                               /\ ~r.end_date.nat
                               /\ ~r.creation_date.nat)

Select(rows, cutoff) == SelectSeq(rows, LAMBDA r : AtOrAfter(r.start_date, cutoff))

\* ------------------------------------------------------------ helper: XML

Element(tag, type, sd, ed, cd) ==
    [tag |-> tag, type |-> type, startDate |-> sd, endDate |-> ed, creationDate |-> cd]

\* elem.get(name): None once clear() has emptied the element
Get(i, name) ==
    IF i \in cleared
    THEN (IF name = "type" THEN NoAttr ELSE NoDate)
    ELSE elems[i][name]

Top == stack[Len(stack)]

\* ------------------------------------------------------------------- Init

Init ==
    /\ pc = "start"
    /\ archive \in {"ok", "nofile", "badzip", "noentry"}
    /\ zipOpen = FALSE
    /\ xmlOpen = FALSE
    /\ opens = 0
    /\ elems = << >>
    /\ stack = << >>
    /\ ended = << >>
    /\ cleared = {}
    /\ sleep_records = << >>
    /\ df = << >>
    /\ fallback = {}
    /\ out_file = "absent"
    /\ out_rows = << >>
    /\ writes = 0
    /\ printed = "none"
    /\ error = "none"

Pipeline == <<df, fallback, out_file, out_rows, writes, printed>>
Reader == <<elems, stack, ended, cleared, sleep_records>>

\* ---------------------------------------------------------------- actions

\* line 23: with zipfile.ZipFile(zip_path, 'r') as zip_ref
\* (a variant that swallows the error and goes on with no records)
OpenArchiveSwallow ==
    /\ pc = "start"
    /\ opens' = opens + 1
    /\ IF archive \in {"nofile", "badzip"}
       THEN /\ pc' = "check"
            /\ UNCHANGED <<zipOpen, error>>
       ELSE /\ zipOpen' = TRUE
            /\ pc' = "entry"
            /\ UNCHANGED error
    /\ UNCHANGED <<archive, xmlOpen, Reader, Pipeline>>

OpenArchive ==
    /\ pc = "start"
    /\ opens' = opens + 1
    /\ IF archive \in {"nofile", "badzip"}
       THEN /\ error' = (IF archive = "nofile" THEN "FileNotFoundError" ELSE "BadZipFile")
            /\ pc' = "raised"
            /\ UNCHANGED zipOpen
       ELSE /\ zipOpen' = TRUE
            /\ pc' = "entry"
            /\ UNCHANGED error
    /\ UNCHANGED <<archive, xmlOpen, Reader, Pipeline>>

\* line 24: with zip_ref.open('apple_health_export/export.xml') as xml_file
OpenEntry ==
    /\ pc = "entry"
    /\ IF archive = "noentry"
       THEN /\ error' = "KeyError"
            /\ pc' = "raised"
            /\ zipOpen' = FALSE
            /\ UNCHANGED xmlOpen
       ELSE /\ xmlOpen' = TRUE
            /\ pc' = "first"
            /\ UNCHANGED <<zipOpen, error>>
    /\ UNCHANGED <<archive, opens, Reader, Pipeline>>

\* lines 26-28: event, root = next(context), the root's 'start' event
FirstEvent(roots) ==
    /\ pc = "first"
    /\ \E e \in roots :
        /\ elems' = <<e>>
        /\ stack' = <<1>>
    /\ pc' = "read"
    /\ UNCHANGED <<archive, zipOpen, xmlOpen, opens, ended, cleared, sleep_records,
                   Pipeline, error>>

\* line 30, a 'start' event: line 31 is false, nothing happens
StartElement(children, depth) ==
    /\ pc = "read"
    /\ stack # << >>
    /\ Len(elems) < MaxElems
    /\ Len(stack) < depth
    /\ \E e \in children :
        /\ elems' = Append(elems, e)
        /\ stack' = Append(stack, Len(elems) + 1)
    /\ UNCHANGED <<pc, archive, zipOpen, xmlOpen, opens, ended, cleared,
                   sleep_records, Pipeline, error>>

\* lines 36-44: the dict built from the element
Record(i) ==
    [id |-> i,
     type |-> Get(i, "type"),
     start_date |-> Get(i, "startDate"),
     end_date |-> Get(i, "endDate"),
     creation_date |-> Get(i, "creationDate")]

\* line 45: sleep_records.append(record)
PrependRecord(recs, r) == <<r>> \o recs

AppendRecord(recs, r) == Append(recs, r)

\* lines 48-49: elem.clear(); root.clear().  The root is element 1.
ClearedAfter(i) == cleared \cup {i, 1}

\* lines 30-49, an 'end' event
EndElement ==
    /\ pc = "read"
    /\ stack # << >>
    /\ LET i == Top IN
        /\ IF elems[i].tag = "Record"
           THEN /\ sleep_records' =
                      (IF IsSleepType(Get(i, "type"))
                       THEN AppendRecord(sleep_records, Record(i))
                       ELSE sleep_records)
                /\ cleared' = ClearedAfter(i)
           ELSE UNCHANGED <<sleep_records, cleared>>
        /\ stack' = SubSeq(stack, 1, Len(stack) - 1)
        /\ ended' = Append(ended, i)
    /\ UNCHANGED <<pc, archive, zipOpen, xmlOpen, opens, elems, Pipeline, error>>

\* line 30 ends with StopIteration after the root's 'end' event; both with
\* blocks are left
EndOfDocument ==
    /\ pc = "read"
    /\ stack = << >>
    /\ xmlOpen' = FALSE
    /\ zipOpen' = FALSE
    /\ pc' = "check"
    /\ UNCHANGED <<archive, opens, Reader, Pipeline, error>>

\* lines 28 and 30: the parser raises ParseError (an empty or malformed
\* document, one that ends before the root is closed, text after the root);
\* the exception leaves both with blocks
\* (a variant without the with blocks: the handles stay open)
ParseErrorLeak ==
    /\ pc \in {"first", "read"}
    /\ error' = "ParseError"
    /\ pc' = "raised"
    /\ UNCHANGED <<archive, zipOpen, xmlOpen, opens, Reader, Pipeline>>

ParseError ==
    /\ pc \in {"first", "read"}
    /\ error' = "ParseError"
    /\ pc' = "raised"
    /\ xmlOpen' = FALSE
    /\ zipOpen' = FALSE
    /\ UNCHANGED <<archive, opens, Reader, Pipeline>>

\* lines 51-53
NoSleepData ==
    /\ pc = "check"
    /\ sleep_records = << >>
    /\ printed' = "No sleep data found in the export."
    /\ pc' = "returned_none"
    /\ UNCHANGED <<archive, zipOpen, xmlOpen, opens, Reader, df, fallback,
                   out_file, out_rows, writes, error>>

\* lines 56-66: pd.DataFrame(sleep_records) with its three date columns
\* converted, each column on its own
Table(recs) ==
    LET sd == ToDatetime(Column(recs, "start_date"))
        ed == ToDatetime(Column(recs, "end_date"))
        cd == ToDatetime(Column(recs, "creation_date"))
    IN  [i \in 1..Len(recs) |->
            [id |-> recs[i].id,
             type |-> recs[i].type,
             start_date |-> sd[i],
             end_date |-> ed[i],
             creation_date |-> cd[i]]]

\* lines 56-66
Normalize ==
    /\ pc = "check"
    /\ sleep_records # << >>
    /\ df' = Table(sleep_records)
    /\ fallback' = {c \in {"start_date", "end_date", "creation_date"} :
                       TookFallback(Column(sleep_records, c))}
    /\ pc' = "filter"
    /\ UNCHANGED <<archive, zipOpen, xmlOpen, opens, Reader, out_file, out_rows,
                   writes, printed, error>>

\* lines 69-74
FilterWindow ==
    /\ pc = "filter"
    /\ df' = Select(df, Cutoff(LatestDate(df)))
    /\ pc' = "filtered"
    /\ UNCHANGED <<archive, zipOpen, xmlOpen, opens, Reader, fallback, out_file,
                   out_rows, writes, printed, error>>

\* lines 76-78
\* (a variant that writes the empty table before it returns)
NoRecentDataWrites ==
    /\ pc = "filtered"
    /\ df = << >>
    /\ printed' = "No sleep data found in the last 30 days."
    /\ out_file' = "complete"
    /\ out_rows' = df
    /\ writes' = writes + 1
    /\ pc' = "returned_none"
    /\ UNCHANGED <<archive, zipOpen, xmlOpen, opens, Reader, df, fallback, error>>

NoRecentData ==
    /\ pc = "filtered"
    /\ df = << >>
    /\ printed' = "No sleep data found in the last 30 days."
    /\ pc' = "returned_none"
    /\ UNCHANGED <<archive, zipOpen, xmlOpen, opens, Reader, df, fallback,
                   out_file, out_rows, writes, error>>

\* lines 81-87: to_parquet succeeds
WriteParquet ==
    /\ pc = "filtered"
    /\ df # << >>
    /\ writes' = writes + 1
    /\ out_file' = "complete"
    /\ out_rows' = df
    /\ printed' = "Extracted"
    /\ pc' = "returned_df"
    /\ UNCHANGED <<archive, zipOpen, xmlOpen, opens, Reader, df, fallback, error>>

\* line 81: to_parquet raises (an unwritable path, a full disk); what it
\* leaves on disk is not said
WriteFails ==
    /\ pc = "filtered"
    /\ df # << >>
    /\ writes' = writes + 1
    /\ out_file' \in {"absent", "partial"}
    /\ error' = "OSError"
    /\ pc' = "raised"
    /\ UNCHANGED <<archive, zipOpen, xmlOpen, opens, Reader, df, fallback,
                   out_rows, printed>>

\* ------------------------------------------------------------ the inputs

\* type attributes: "HKSleepA", "sleep_", "SLEEP", and four that hold no
\* keyword: "Step", "sLeep", "Slee" and the empty text
HKSleepA == <<"H","K","S","l","e","e","p","A">>

TypeTexts ==
    { HKSleepA,
      <<"s","l","e","e","p","_">>,
      <<"S","L","E","E","P">>,
      <<"S","t","e","p">>,
      <<"s","L","e","e","p">>,
      <<"S","l","e","e">>,
      << >> }

Types == {NoAttr} \cup {Str(s) : s \in TypeTexts}

\* date attributes
Latest == DateStr("iso", 1000, 0)        \* the latest instant, 1000
Boundary == DateStr("iso", 283, 3)       \* instant 280 = 1000 - 720
Outside == DateStr("iso", 282, 3)        \* instant 279
Later == DateStr("iso", 2000, 0)         \* instant 2000
LatestEast == DateStr("iso", 1003, 3)    \* instant 1000, written at +03:00
LooseEast == DateStr("loose", 1003, 3)   \* the same, not ISO-8601

HealthData == Element("HealthData", NoAttr, NoDate, NoDate, NoDate)

FilterRoots == {HealthData, Element("Record", Str(HKSleepA), Latest, Latest, Latest)}

FilterChildren ==
    {Element("Record", t, Latest, Latest, Latest) : t \in Types}
    \cup {Element("Record", Str(HKSleepA), NoDate, NoDate, NoDate)}
    \cup {Element("Workout", Str(HKSleepA), Latest, Latest, Latest)}

WindowChildren ==
    {Element("Record", Str(HKSleepA), sd, Latest, Latest) :
        sd \in {Latest, LatestEast, Boundary, Outside, Garbage, NoDate}}
    \cup {Element("Record", Str(<<"S","t","e","p">>), Later, Later, Later)}

ColumnChildren ==
    {Element("Record", Str(HKSleepA), sd, ed, cd) :
        sd \in {Latest, Garbage},
        ed \in {LatestEast, Garbage, NoDate},
        cd \in {Latest, LooseEast}}

\* ------------------------------------------------------ the specifications

Reading(roots, children, depth) ==
    \/ FirstEvent(roots)
    \/ StartElement(children, depth)
    \/ EndElement
    \/ EndOfDocument
    \/ ParseError

Rest ==
    \/ OpenArchive
    \/ OpenEntry
    \/ NoSleepData
    \/ Normalize
    \/ FilterWindow
    \/ NoRecentData
    \/ WriteParquet
    \/ WriteFails

\* documents of any shape, every type attribute
Next == Reading(FilterRoots, FilterChildren, MaxDepth) \/ Rest
Spec == Init /\ [][Next]_vars

\* flat documents, every start date
NextWindow == Reading({HealthData}, WindowChildren, DateDepth) \/ Rest
SpecWindow == Init /\ [][NextWindow]_vars

\* flat documents, every end and creation date
NextColumns == Reading({HealthData}, ColumnChildren, DateDepth) \/ Rest
SpecColumns == Init /\ [][NextColumns]_vars

\* ------------------------------------------------- what the claims speak of

Ids(rows) == {rows[i].id : i \in 1..Len(rows)}

\* a type attribute that is present and holds "sleep", "Sleep" or "SLEEP"
TypeMatches(t) ==
    /\ t.some
    /\ \E k \in { <<"s","l","e","e","p">>, <<"S","l","e","e","p">>,
                  <<"S","L","E","E","P">> } : Contains(t.s, k)

\* the instant a date text spells, when it spells one
HasDate(d) == d.kind \in {"iso", "loose"}
Instant(d) == d.wall - d.off

DocRecords == {i \in 1..Len(elems) : elems[i].tag = "Record"}
DocSleep == {i \in DocRecords : TypeMatches(elems[i].type)}

\* the non-null start dates of a table
Starts(rows) ==
    {rows[i].start_date.inst : i \in {j \in 1..Len(rows) : ~rows[j].start_date.nat}}

EndPos(i) == CHOOSE k \in 1..Len(ended) : ended[k] = i

InEndOrder(rows) ==
    \A a, b \in 1..Len(rows) : a < b => EndPos(rows[a].id) < EndPos(rows[b].id)

InDocOrder(rows) ==
    \A a, b \in 1..Len(rows) : a < b => rows[a].id < rows[b].id

DateColumns == {"start_date", "end_date", "creation_date"}

\* ------------------------------------------------------------------ claims

\* C1: every Record element the loop has finished with is among the sleep
\* records if and only if its type attribute is present and holds one of the
\* three keywords; an element with another tag never is.  (Violated: a root
\* Record that has a Record below it has lost its attributes to root.clear()
\* by the time its own 'end' event comes.)
C1_KeywordFilter ==
    \A k \in 1..Len(ended) :
        (ended[k] \in Ids(sleep_records))
            <=> (elems[ended[k]].tag = "Record" /\ TypeMatches(elems[ended[k]].type))

\* The same for every element but a root Record with a Record below it.
KeywordFilterBelowRoot ==
    \A k \in 1..Len(ended) :
        (ended[k] = 1 /\ elems[1].tag = "Record" /\ DocRecords # {1})
        \/ ((ended[k] \in Ids(sleep_records))
              <=> (elems[ended[k]].tag = "Record" /\ TypeMatches(elems[ended[k]].type)))

\* C2: whenever the filtered table is not empty, every row of it has
\* start_date >= max(start_date) - 720 hours, the maximum taken over the
\* non-null start dates of the sleep records, and no sleep record within that
\* bound is missing from it; the file written holds that table.
C2_WindowInvariant ==
    (pc \in {"filtered", "returned_df"} /\ df # << >>) =>
        LET T == Table(sleep_records) IN
        /\ Starts(T) # {}
        /\ \A i \in 1..Len(df) :
              /\ ~df[i].start_date.nat
              /\ df[i].start_date.inst >= MaxInst(Starts(T)) - 720
        /\ \A i \in 1..Len(T) :
              (~T[i].start_date.nat /\ T[i].start_date.inst >= MaxInst(Starts(T)) - 720)
                  => T[i].id \in Ids(df)
        /\ pc = "returned_df" => out_rows = df

\* a written table that holds a row exactly 720 hours before the latest and
\* lacks a sleep record with an older start date
C2_Witness ==
    /\ pc = "returned_df"
    /\ \E i \in 1..Len(out_rows) :
          out_rows[i].start_date.inst = MaxInst(Starts(out_rows)) - 720
    /\ \E i \in 1..Len(sleep_records) :
          /\ HasDate(sleep_records[i].start_date)
          /\ sleep_records[i].id \notin Ids(out_rows)

\* C3 as stated: the output holds exactly the sleep-matching records whose
\* startDate >= L - 30 days, L the latest startDate of any Record of the
\* document.
C3_LatestOfAnyRecord ==
    pc = "returned_df" =>
        LET dated == {i \in DocRecords : HasDate(elems[i].startDate)}
            L == MaxInst({Instant(elems[i].startDate) : i \in dated})
        IN  Ids(out_rows) =
                {i \in DocSleep : /\ HasDate(elems[i].startDate)
                                  /\ Instant(elems[i].startDate) >= L - 720}

\* C3 as amended: the output holds exactly the records the filter collected
\* whose start date >= L - 30 days, L the latest start date among the
\* collected (sleep) records; no record of another type is in it.
C3_LatestOfSleepRecords ==
    pc = "returned_df" =>
        LET dated == {i \in 1..Len(sleep_records) : HasDate(sleep_records[i].start_date)}
            L == MaxInst({Instant(sleep_records[i].start_date) : i \in dated})
        IN  /\ dated # {}
            /\ Ids(out_rows) =
                  {sleep_records[i].id : i \in
                      {j \in dated : Instant(sleep_records[j].start_date) >= L - 720}}
            /\ Ids(out_rows) \subseteq DocSleep

\* a written table next to a Record of another type that starts more than 30
\* days after every row written
C3_Witness ==
    /\ pc = "returned_df"
    /\ \E i \in DocRecords \ DocSleep :
          /\ HasDate(elems[i].startDate)
          /\ \A j \in 1..Len(out_rows) :
                out_rows[j].start_date.inst < Instant(elems[i].startDate) - 720
    /\ Len(out_rows) < Len(sleep_records)

\* C4: with no sleep record, or with no row left by the 30-day filter, the
\* function prints its message and returns: nothing is raised and to_parquet
\* is never called; a file is written only from a table that is not empty.
C4_EmptyResult ==
    /\ (pc \in {"filtered", "returned_none", "returned_df"} /\ sleep_records = << >>)
          => /\ pc = "returned_none"
             /\ printed = "No sleep data found in the export."
    /\ (pc \in {"returned_none", "returned_df"} /\ sleep_records # << >> /\ df = << >>)
          => /\ pc = "returned_none"
             /\ printed = "No sleep data found in the last 30 days."
    /\ pc = "returned_none" => (error = "none" /\ writes = 0 /\ out_file = "absent")
    /\ (writes > 0 \/ out_file # "absent") => df # << >>

\* the run that collected sleep records and returned with no row left
C4_Witness ==
    /\ pc = "returned_none"
    /\ sleep_records # << >>
    /\ printed = "No sleep data found in the last 30 days."
    /\ out_file = "absent"

C6_UtcOnBothPaths ==
    out_file = "complete" =>
        \A i \in 1..Len(out_rows) : \A c \in DateColumns :
            out_rows[i][c].nat \/ out_rows[i][c].tz = 0

\* The same for the columns that took the strict path.
UtcOnStrictPath ==
    \A i \in 1..Len(df) : \A c \in DateColumns \ fallback :
        df[i][c].nat \/ df[i][c].tz = 0

\* C7: an archive that cannot be opened, or that lacks the entry, ends the
\* run with the exception: ZipFile is called once, nothing is read, printed
\* or written.  A failed write ends the run with the exception after one
\* call of to_parquet.
C7_FatalNotRetried ==
    /\ opens <= 1
    /\ writes <= 1
    /\ archive \in {"nofile", "badzip"} =>
          /\ pc \in {"start", "raised"}
          /\ pc = "raised" =>
                error = (IF archive = "nofile" THEN "FileNotFoundError" ELSE "BadZipFile")
    /\ archive = "noentry" =>
          /\ pc \in {"start", "entry", "raised"}
          /\ pc = "raised" => error = "KeyError"
    /\ archive # "ok" =>
          /\ out_file = "absent"
          /\ writes = 0
          /\ printed = "none"
          /\ elems = << >>
    /\ (pc = "raised") <=> (error # "none")
    /\ (writes = 1 /\ out_file # "complete") => (pc = "raised" /\ error = "OSError")

\* the run that found no export.xml in the archive
C7_Witness ==
    /\ pc = "raised"
    /\ error = "KeyError"
    /\ opens = 1
    /\ out_file = "absent"

\* C8: outside the reading phase the XML stream and the archive are closed,
\* whether the phase ended with the document or with an exception; the
\* stream is never open without the archive.
C8_HandlesClosed ==
    /\ pc \notin {"entry", "first", "read"} => (~xmlOpen /\ ~zipOpen)
    /\ pc \in {"first", "read"} => (xmlOpen /\ zipOpen)
    /\ xmlOpen => zipOpen

\* the run that the parser ended in the middle of the document
C8_Witness ==
    /\ pc = "raised"
    /\ error = "ParseError"
    /\ sleep_records # << >>
    /\ stack # << >>
    /\ ~xmlOpen
    /\ ~zipOpen

\* C9 as stated: the rows of the record list and of the output stand in the
\* order their Record elements have in the document.
C9_DocumentOrder ==
    /\ InDocOrder(sleep_records)
    /\ InDocOrder(out_rows)

\* C9 as amended: the rows of the record list, of the table and of the output
\* stand in the order in which their Record elements end in the document,
\* each element once; the output is the record list with rows left out.
C9_EndTagOrder ==
    /\ InEndOrder(sleep_records)
    /\ InEndOrder(df)
    /\ InEndOrder(out_rows)
    /\ Ids(out_rows) \subseteq Ids(sleep_records)

\* a written table of two rows or more from which the filter took a row
C9_Witness ==
    /\ out_file = "complete"
    /\ Len(out_rows) >= 2
    /\ Len(out_rows) < Len(sleep_records)

====
